---- MODULE Spec2Model ----
(***************************************************************************)
(* Model of models/train_classifier.py: the custom multi-output F-score,   *)
(* the StartingVerbExtractor feature, and the main() training run with its *)
(* cross-validated grid search.                                            *)
(*                                                                         *)
(* Numbers are exact: a score is a fraction <<num, den>>; <<0, 0>> stands  *)
(* for a floating-point NaN. A geometric mean is kept as the radicand and  *)
(* the order of the root.                                                  *)
(***************************************************************************)
EXTENDS Integers, Sequences, FiniteSets, TLC

VARIABLES
    \* multioutput_fscore
    y_true, y_pred, score_list, f1score, spc,
    \* StartingVerbExtractor
    X, tagger, X_tagged, vpc,
    \* main
    argc, nrows, file0, file, pc, exc, completed, console,
    X_train, X_test, out, fitted, scored, mean_test_score, best_index,
    eval_return,
    \* history: a unit of the search finished before one submitted earlier
    overtook

scorerVars == <<y_true, y_pred, score_list, f1score, spc>>
verbVars == <<X, tagger, X_tagged, vpc>>
mainVars == <<argc, nrows, file0, file, pc, exc, completed, console,
              X_train, X_test, out, fitted, scored, mean_test_score, best_index,
              eval_return, overtook>>
vars == <<scorerVars, verbVars, mainVars>>

-----------------------------------------------------------------------------
(* Bounds *)
NSamples == 2
NLabels == 2
MaxScores == 3
Scale == 10
MaxTexts == 2
MaxSentences == 2
MaxTokens == 2
MaxArgc == 4
MaxRows == 5
NFolds == 3

(* Program constants *)
DefaultBeta == 1
TestSizeInv == 5

-----------------------------------------------------------------------------
(* The parts of the program a specification leaves alone *)
NotANumber == [kind |-> "nan"]

ScorerIdle ==
    /\ y_true = <<>> /\ y_pred = <<>> /\ score_list = <<>>
    /\ f1score = NotANumber /\ spc = "idle"

VerbIdle ==
    /\ X = <<>> /\ tagger = "NN" /\ X_tagged = <<>> /\ vpc = "idle"

MainIdle ==
    /\ argc = 1 /\ nrows = 0 /\ file0 = "absent" /\ file = "absent"
    /\ pc = "idle" /\ exc = "" /\ completed = <<>> /\ console = <<>>
    /\ X_train = <<>> /\ X_test = <<>> /\ out = <<>>
    /\ fitted = {} /\ scored = {} /\ mean_test_score = <<>>
    /\ best_index = 0 /\ eval_return = "unset" /\ overtook = FALSE

-----------------------------------------------------------------------------
(* Exact arithmetic on fractions *)
NaN == <<0, 0>>
FracAdd(x, y) == <<x[1] * y[2] + y[1] * x[2], x[2] * y[2]>>
FracScale(w, x) == <<w * x[1], x[2]>>

RECURSIVE ProdNum(_)
ProdNum(a) == IF Len(a) = 0 THEN 1 ELSE Head(a)[1] * ProdNum(Tail(a))
RECURSIVE ProdDen(_)
ProdDen(a) == IF Len(a) = 0 THEN 1 ELSE Head(a)[2] * ProdDen(Tail(a))

-----------------------------------------------------------------------------
(* sklearn.metrics.fbeta_score(y_true, y_pred, beta, average='weighted')   *)
Classes == {0, 1}
Rows == 1..NSamples
Cols == 1..NLabels

tp_sum(c, k) == Cardinality({i \in Rows : y_true[i][k] = c /\ y_pred[i][k] = c})
pred_sum(c, k) == Cardinality({i \in Rows : y_pred[i][k] = c})
true_sum(c, k) == Cardinality({i \in Rows : y_true[i][k] = c})

\* Faulty variant of fbeta_class: a class without predicted or without true
\* members divides by zero, and the 0/0 is left in place.
fbeta_class_nan(beta, tp, pred, true) ==
    IF pred = 0 \/ true = 0 THEN NaN
    ELSE IF tp = 0 THEN <<0, 1>>
    ELSE <<(1 + beta * beta) * tp, beta * beta * true + pred>>

\* precision = tp/pred, recall = tp/true, F = (1+b^2) p r / (b^2 p + r),
\* every division by zero giving 0.
fbeta_class(beta, tp, pred, true) ==
    IF pred = 0 \/ true = 0 THEN <<0, 1>>
    ELSE IF tp = 0 THEN <<0, 1>>
    ELSE <<(1 + beta * beta) * tp, beta * beta * true + pred>>

\* The labels present in the column, in sorted order.
present_labels(k) ==
    SelectSeq(<<0, 1>>, LAMBDA c : true_sum(c, k) > 0 \/ pred_sum(c, k) > 0)

RECURSIVE weighted_sum(_, _, _)
weighted_sum(beta, k, labels) ==
    IF Len(labels) = 0 THEN <<0, 1>>
    ELSE LET c == Head(labels)
         IN  FracAdd(FracScale(true_sum(c, k),
                               fbeta_class(beta, tp_sum(c, k), pred_sum(c, k), true_sum(c, k))),
                     weighted_sum(beta, k, Tail(labels)))

\* Average of the per-class scores weighted by support.
fbeta_score(beta, k) ==
    LET s == weighted_sum(beta, k, present_labels(k))
    IN  <<s[1], s[2] * NSamples>>

-----------------------------------------------------------------------------
(* multioutput_fscore *)
\* Faulty variant of below_one: the perfect scores are kept.
keep_all(s) == s[2] > 0

\* f1score_numpy < 1 (a comparison with NaN is false)
below_one(s) == s[2] > 0 /\ s[1] < s[2]

\* scipy gmean: exp(mean(log(a))); the mean of an empty array is NaN, and
\* log(0) = -inf makes the result 0.
gmean(a) ==
    IF Len(a) = 0 THEN NotANumber
    ELSE [kind |-> "num", num |-> ProdNum(a), den |-> ProdDen(a), root |-> Len(a)]

filter_and_gmean(scores) == gmean(SelectSeq(scores, below_one))

\* for column in range(0, y_true.shape[1]): score_list.append(fbeta_score(...))
ScoreColumns ==
    /\ spc = "call"
    /\ score_list' = [k \in Cols |-> fbeta_score(DefaultBeta, k)]
    /\ spc' = "scored"
    /\ UNCHANGED <<y_true, y_pred, f1score, verbVars, mainVars>>

\* f1score_numpy[f1score_numpy<1]; gmean; return
Aggregate ==
    /\ spc = "scored"
    /\ f1score' = filter_and_gmean(score_list)
    /\ spc' = "return"
    /\ UNCHANGED <<y_true, y_pred, score_list, verbVars, mainVars>>

LabelMatrices == [Rows -> [Cols -> Classes]]

InitScore ==
    /\ y_true \in LabelMatrices
    /\ y_pred \in LabelMatrices
    /\ score_list = <<>>
    /\ f1score = NotANumber
    /\ spc = "call"
    /\ VerbIdle
    /\ MainIdle

NextScore == ScoreColumns \/ Aggregate
SpecScore == InitScore /\ [][NextScore]_vars

\* The aggregation stage alone, on any array of per-label scores k/Scale.
ScoreArrays == UNION {[1..n -> {<<k, Scale>> : k \in 0..Scale}] : n \in 1..MaxScores}

InitAgg ==
    /\ y_true = <<>>
    /\ y_pred = <<>>
    /\ score_list \in ScoreArrays
    /\ f1score = NotANumber
    /\ spc = "scored"
    /\ VerbIdle
    /\ MainIdle

NextAgg == Aggregate
SpecAgg == InitAgg /\ [][NextAgg]_vars

-----------------------------------------------------------------------------
(* tokenize and StartingVerbExtractor *)

\* A text is the sequence of its sentences (nltk.sent_tokenize), a sentence
\* the sequence of its raw tokens (word_tokenize); a sentence may hold none.
Words == {"RT", "Run", "dogs"}
Tags == {"VB", "VBP", "NN"}

\* WordNetLemmatizer.lemmatize: the noun lemma of a lower-case word WordNet
\* knows; any other token is returned as it is.
lemmatize(w) == IF w = "dogs" THEN "dog" ELSE w

\* str.lower()
lower(w) ==
    CASE w = "RT"  -> "rt"
      [] w = "Run" -> "run"
      [] OTHER     -> w

\* str.strip(): a token of word_tokenize holds no white space
strip(w) == w

tokenize(sentence) ==
    [i \in 1..Len(sentence) |-> strip(lower(lemmatize(sentence[i])))]

\* nltk.pos_tag: the tag of "rt", a token of no lexicon, is the tagger's to
\* choose; "run" is tagged as a base-form verb and "dog" as a noun.
pos_tag(tokens) ==
    [i \in 1..Len(tokens) |->
        <<tokens[i],
          CASE tokens[i] = "run" -> "VB"
            [] tokens[i] = "dog" -> "NN"
            [] OTHER             -> tagger>>]

\* "True", "False", or "IndexError" when pos_tags[0] is read of a sentence
\* without tokens.
RECURSIVE starting_verb(_)
starting_verb(sentence_list) ==
    IF Len(sentence_list) = 0 THEN "False"
    ELSE LET pos_tags == pos_tag(tokenize(Head(sentence_list)))
         IN  IF Len(pos_tags) = 0 THEN "IndexError"
             ELSE LET first_word == pos_tags[1][1]
                      first_tag  == pos_tags[1][2]
                  IN  IF first_tag \in {"VB", "VBP"} \/ first_word = "RT"
                      THEN "True"
                      ELSE starting_verb(Tail(sentence_list))

\* pd.Series(X).apply(self.starting_verb): an exception of one sample ends
\* the call and nothing is returned.
transform ==
    /\ vpc = "call"
    /\ LET r == [i \in 1..Len(X) |-> starting_verb(X[i])]
       IN  IF \E i \in 1..Len(X) : r[i] = "IndexError"
           THEN /\ vpc' = "raised"
                /\ X_tagged' = X_tagged
           ELSE /\ vpc' = "return"
                /\ X_tagged' = [i \in 1..Len(X) |-> r[i] = "True"]
    /\ UNCHANGED <<X, tagger, scorerVars, mainVars>>

SeqsUpTo(S, n) == UNION {[1..m -> S] : m \in 0..n}
Sentences == SeqsUpTo(Words, MaxTokens)
Texts == SeqsUpTo(Sentences, MaxSentences)

InitVerb ==
    /\ X \in SeqsUpTo(Texts, MaxTexts)
    /\ tagger \in Tags
    /\ X_tagged = <<>>
    /\ vpc = "call"
    /\ ScorerIdle
    /\ MainIdle

NextVerb == transform
SpecVerb == InitVerb /\ [][NextVerb]_vars

-----------------------------------------------------------------------------
(* main: load, split, grid search, evaluate, save *)

Range(f) == {f[i] : i \in DOMAIN f}
Line(m, a) == [msg |-> m, arg |-> a]

\* Faulty variant of MainOrder: the model is saved before it is evaluated.
MainOrderSaveFirst ==
    <<"load_data", "train_test_split", "build_model", "fit",
      "save_model", "evaluate_model">>

\* The calls of main, in the order of its statements.
MainOrder ==
    <<"load_data", "train_test_split", "build_model", "fit",
      "evaluate_model", "save_model">>

After(step) ==
    LET i == CHOOSE j \in 1..Len(MainOrder) : MainOrder[j] = step
    IN  IF i = Len(MainOrder) THEN "exit" ELSE MainOrder[i + 1]

\* What main prints before it makes a call, and after the last one.
Banner(step) ==
    CASE step = "load_data"      -> <<Line("Loading data...", 0)>>
      [] step = "build_model"    -> <<Line("Building model...", 0)>>
      [] step = "fit"            -> <<Line("Training model...", 0)>>
      [] step = "evaluate_model" -> <<Line("Evaluating model...", 0)>>
      [] step = "save_model"     -> <<Line("Saving model...", 0)>>
      [] step = "exit"           -> <<Line("Trained model saved!", 0)>>
      [] OTHER                   -> <<>>

\* Faulty variant of argv_ok: any count of three or more is taken.
argv_ok_at_least == argc >= 3

\* len(sys.argv) == 3
argv_ok == argc = 3

Return(step) ==
    /\ completed' = Append(completed, step)
    /\ pc' = After(step)
    /\ console' = console \o Banner(After(step))

Raise(step) ==
    /\ pc' = "raised"
    /\ exc' = step

main ==
    /\ pc = "main"
    /\ IF argv_ok
       THEN /\ pc' = MainOrder[1]
            /\ console' = console \o Banner(MainOrder[1])
       ELSE /\ pc' = "exit"
            /\ console' = Append(console, Line("Please provide the filepath ...", 0))
    /\ UNCHANGED <<argc, nrows, file0, file, exc, completed, X_train, X_test, out,
                   fitted, scored, mean_test_score, best_index, eval_return,
                   overtook, scorerVars, verbVars>>

\* A call that ends in an exception: main catches nothing, the run ends.
Fail ==
    /\ pc \in {"load_data", "train_test_split", "fit", "evaluate_model"}
    /\ Raise(pc)
    /\ UNCHANGED <<argc, nrows, file0, file, completed, console, X_train, X_test,
                   out, fitted, scored, mean_test_score, best_index, eval_return,
                   overtook, scorerVars, verbVars>>

\* X, y, category_names = load_data(database_filepath)
load_data ==
    /\ pc = "load_data"
    /\ Return("load_data")
    /\ UNCHANGED <<argc, nrows, file0, file, exc, X_train, X_test, out, fitted,
                   scored, mean_test_score, best_index, eval_return,
                   overtook, scorerVars, verbVars>>

\* train_test_split(X, y, test_size=0.2): n_test = ceil(0.2 n), the rest is
\* the training set; a random permutation decides the membership. An empty
\* corpus or an empty training set raises ValueError.
n_test == (nrows + TestSizeInv - 1) \div TestSizeInv
Shuffles(n) == {p \in [1..n -> 1..n] : \A i, j \in 1..n : i # j => p[i] # p[j]}

train_test_split ==
    /\ pc = "train_test_split"
    /\ IF nrows = 0 \/ nrows - n_test = 0
       THEN /\ Raise("train_test_split")
            /\ UNCHANGED <<completed, console, X_train, X_test>>
       ELSE /\ \E p \in Shuffles(nrows) :
                  /\ X_test' = SubSeq(p, 1, n_test)
                  /\ X_train' = SubSeq(p, n_test + 1, nrows)
            /\ Return("train_test_split")
            /\ exc' = exc
    /\ UNCHANGED <<argc, nrows, file0, file, out, fitted, scored,
                   mean_test_score, best_index, eval_return, overtook, scorerVars, verbVars>>

\* parameters = {'clf__estimator__n_estimators': [10]}: the grid's candidates
parameters == <<10>>
Candidates == 1..Len(parameters)
Folds == 1..NFolds
Pending == -2
NaNScore == -1
UnitScores == {NaNScore, 0, 1}

\* model = build_model()
build_model ==
    /\ pc = "build_model"
    /\ out' = [c \in Candidates |-> [f \in Folds |-> Pending]]
    /\ Return("build_model")
    /\ UNCHANGED <<argc, nrows, file0, file, exc, X_train, X_test, fitted,
                   scored, mean_test_score, best_index, eval_return,
                   overtook, scorerVars, verbVars>>

\* Faulty variant of FitData: the whole corpus is handed to fit.
FitDataAll == X_train \o X_test

\* model.fit(X_train, y_train)
FitData == X_train

\* KFold without shuffling: consecutive folds, the first n mod F one larger.
FoldSize(n, f) == (n \div NFolds) + (IF f <= n % NFolds THEN 1 ELSE 0)
RECURSIVE FoldStart(_, _)
FoldStart(n, f) == IF f = 1 THEN 1 ELSE FoldStart(n, f - 1) + FoldSize(n, f - 1)
HeldOut(f) ==
    LET n == Len(FitData)
    IN  {FitData[i] : i \in FoldStart(n, f)..(FoldStart(n, f) + FoldSize(n, f) - 1)}
FoldTrain(f) == Range(FitData) \ HeldOut(f)

\* Fewer samples than folds: the split of the cross-validation raises.
FitTooFewRows ==
    /\ pc = "fit"
    /\ Len(FitData) < NFolds
    /\ Raise("fit")
    /\ UNCHANGED <<argc, nrows, file0, file, completed, console, X_train, X_test,
                   out, fitted, scored, mean_test_score, best_index, eval_return,
                   overtook, scorerVars, verbVars>>

\* One (candidate, fold) unit of the search, run by any worker at any time
\* (n_jobs = -1): fit on the fold's training rows, score on its held-out
\* rows; the score is stored at the unit's own place.
FitAndScore(c, f) ==
    /\ pc = "fit"
    /\ Len(FitData) >= NFolds
    /\ out[c][f] = Pending
    /\ \E s \in UnitScores : out' = [out EXCEPT ![c][f] = s]
    /\ fitted' = fitted \cup {[kind |-> "cv", rows |-> FoldTrain(f)]}
    /\ scored' = scored \cup {[kind |-> "cv", rows |-> HeldOut(f)]}
    /\ overtook' = (overtook \/ \E d \in Candidates : \E g \in Folds :
                        /\ out[d][g] = Pending
                        /\ (d < c \/ (d = c /\ g < f)))
    /\ UNCHANGED <<argc, nrows, file0, file, pc, exc, completed, console,
                   X_train, X_test, mean_test_score, best_index, eval_return,
                   scorerVars, verbVars>>

RECURSIVE SumScores(_, _)
SumScores(row, f) == IF f = 0 THEN 0 ELSE row[f] + SumScores(row, f - 1)

\* The mean of a candidate's fold scores, as its sum over NFolds; NaN when a
\* fold scored NaN.
mean_score(row) ==
    IF \E f \in Folds : row[f] = NaNScore THEN NaNScore ELSE SumScores(row, NFolds)

\* rank_test_score.argmin(): the first candidate of the best rank, a NaN
\* mean ranking last.
best_of(means) ==
    CHOOSE c \in DOMAIN means :
        /\ \A d \in DOMAIN means : means[d] <= means[c]
        /\ \A d \in DOMAIN means : d < c => means[d] < means[c]

\* Faulty variant of refit_rows: the last fold's training rows only.
refit_rows_last_fold == FoldTrain(NFolds)

\* refit=True: the best candidate is fitted again on all that fit was given
refit_rows == Range(FitData)

SelectAndRefit ==
    /\ pc = "fit"
    /\ Len(FitData) >= NFolds
    /\ \A c \in Candidates : \A f \in Folds : out[c][f] # Pending
    /\ mean_test_score' = [c \in Candidates |-> mean_score(out[c])]
    /\ best_index' = best_of(mean_test_score')
    /\ fitted' = fitted \cup {[kind |-> "refit", rows |-> refit_rows]}
    /\ Return("fit")
    /\ UNCHANGED <<argc, nrows, file0, file, exc, X_train, X_test, out, scored,
                   eval_return, overtook, scorerVars, verbVars>>

\* Faulty variant of evaluate_prints: only the two summary lines.
evaluate_prints_summary ==
    <<Line("Average overall accuracy", 0), Line("F1 score (custom definition)", 0)>>

\* The prints of evaluate_model: a separator and the report of each category
\* in order, then the accuracy and the custom F1 score.
evaluate_prints ==
    [i \in 1..(2 * NLabels) |->
        IF i % 2 = 1 THEN Line("------", 0) ELSE Line("Category:", i \div 2)]
    \o <<Line("Average overall accuracy", 0), Line("F1 score (custom definition)", 0)>>

\* evaluate_model holds no return statement
evaluate_returns == "None"

evaluate_model ==
    /\ pc = "evaluate_model"
    /\ scored' = scored \cup {[kind |-> "evaluate", rows |-> Range(X_test)]}
    /\ completed' = Append(completed, "evaluate_model")
    /\ pc' = After("evaluate_model")
    /\ console' = console \o evaluate_prints \o Banner(After("evaluate_model"))
    /\ eval_return' = evaluate_returns
    /\ UNCHANGED <<argc, nrows, file0, file, exc, X_train, X_test, out, fitted,
                   mean_test_score, best_index, overtook, scorerVars, verbVars>>

\* pickle.dump(model, open(model_filepath, 'wb')): open may fail and leave
\* the path as it was; once open has truncated the file, dump may fail and
\* leave it partial.
save_model ==
    /\ pc = "save_model"
    /\ \/ /\ Raise("save_model")
          /\ file' \in {file, "partial"}
          /\ UNCHANGED <<completed, console>>
       \/ /\ file' = "model"
          /\ Return("save_model")
          /\ exc' = exc
    /\ UNCHANGED <<argc, nrows, file0, X_train, X_test, out, fitted, scored,
                   mean_test_score, best_index, eval_return, overtook, scorerVars, verbVars>>

InitMain ==
    /\ argc \in 1..MaxArgc
    /\ nrows \in 0..MaxRows
    /\ file0 \in {"absent", "old"}
    /\ file = file0
    /\ pc = "main" /\ exc = "" /\ completed = <<>> /\ console = <<>>
    /\ X_train = <<>> /\ X_test = <<>> /\ out = <<>>
    /\ fitted = {} /\ scored = {} /\ mean_test_score = <<>>
    /\ best_index = 0 /\ eval_return = "unset" /\ overtook = FALSE
    /\ ScorerIdle
    /\ VerbIdle

NextMain ==
    \/ main
    \/ Fail
    \/ load_data
    \/ train_test_split
    \/ build_model
    \/ FitTooFewRows
    \/ \E c \in Candidates : \E f \in Folds : FitAndScore(c, f)
    \/ SelectAndRefit
    \/ evaluate_model
    \/ save_model

SpecMain == InitMain /\ [][NextMain]_vars

-----------------------------------------------------------------------------
(* Claims about multioutput_fscore *)

RECURSIVE SetProd(_, _, _)
SetProd(a, S, j) ==
    IF S = {} THEN 1
    ELSE LET i == CHOOSE x \in S : TRUE
         IN  a[i][j] * SetProd(a, S \ {i}, j)

NotPerfect == {i \in DOMAIN score_list : score_list[i][1] # score_list[i][2]}

\* C1: when at least one per-label score differs from 1.0, the value returned
\* is the geometric mean of exactly the scores that are not 1.0: their product
\* under a root of order their count. [0.8, 1.0, 0.6] gives sqrt(0.48).
C1_GmeanOfImperfect ==
    spc = "return" =>
        /\ NotPerfect # {} =>
              f1score = [kind |-> "num",
                         num  |-> SetProd(score_list, NotPerfect, 1),
                         den  |-> SetProd(score_list, NotPerfect, 2),
                         root |-> Cardinality(NotPerfect)]
        /\ score_list = << <<8, 10>>, <<10, 10>>, <<6, 10>> >> =>
              f1score = [kind |-> "num", num |-> 48, den |-> 100, root |-> 2]

C1_Witness ==
    /\ spc = "return"
    /\ score_list = << <<8, 10>>, <<10, 10>>, <<6, 10>> >>
    /\ f1score = [kind |-> "num", num |-> 48, den |-> 100, root |-> 2]

AllPerfect == \A k \in DOMAIN score_list : score_list[k][1] = score_list[k][2]

\* C2: when every per-label score is 1.0 the function ends in a defined
\* value chosen as the fallback, not in an undefined result.
C2_DefinedFallback ==
    (spc = "return" /\ AllPerfect) => f1score.kind = "num"

InUnit(s) == s[2] > 0 /\ 0 <= s[1] /\ s[1] <= s[2]

\* The weighted score of column k when class c contributes 0: only the other
\* class d counts, with weight its support.
OnlyClass(s, d, k) ==
    LET t == tp_sum(d, k)
        a == IF t = 0 THEN 0 ELSE (1 + DefaultBeta * DefaultBeta) * t
        b == IF t = 0 THEN 1
             ELSE DefaultBeta * DefaultBeta * true_sum(d, k) + pred_sum(d, k)
    IN  s[1] * (b * NSamples) = true_sum(d, k) * a * s[2]

\* C3: unless every per-label score is 1.0, the aggregate is a number in
\* [0, 1]; every per-label score is a number in [0, 1], and a class with no
\* predicted or no true members counts as 0 in its column.
C3_AggregateInUnit ==
    spc = "return" =>
        /\ \A k \in Cols : InUnit(score_list[k])
        /\ \A k \in Cols : \A c \in Classes :
              (pred_sum(c, k) = 0 \/ true_sum(c, k) = 0) =>
                  OnlyClass(score_list[k], 1 - c, k)
        /\ ~AllPerfect =>
              /\ f1score.kind = "num"
              /\ f1score.root > 0
              /\ 0 <= f1score.num /\ f1score.num <= f1score.den

C3_Witness ==
    /\ spc = "return"
    /\ \E k \in Cols : \E c \in Classes : pred_sum(c, k) = 0 /\ true_sum(c, k) > 0
    /\ \E k \in Cols : 0 < score_list[k][1] /\ score_list[k][1] < score_list[k][2]
    /\ f1score.kind = "num"

-----------------------------------------------------------------------------
(* Claims about StartingVerbExtractor *)

LeadsWithVerbOrMarker(sentence) ==
    /\ Len(sentence) > 0
    /\ \/ pos_tag(tokenize(sentence))[1][2] \in {"VB", "VBP"}
       \/ sentence[1] = "RT"

\* C4: starting_verb is true exactly when some sentence of the text leads
\* with a token tagged VB or VBP or with the literal marker "RT".
C4_VerbOrMarker ==
    vpc = "return" =>
        \A i \in 1..Len(X) :
            X_tagged[i] = (\E j \in 1..Len(X[i]) : LeadsWithVerbOrMarker(X[i][j]))

-----------------------------------------------------------------------------
(* Claims about main *)

UsageLine == Line("Please provide the filepath ...", 0)

\* C5: with an argument count other than two (argv of length three) main
\* prints the usage text and runs none of load_data, train_test_split,
\* build_model, fit, evaluate_model, save_model; no model file is written.
C5_UsageOnly ==
    argc # 3 =>
        /\ pc \in {"main", "exit"}
        /\ completed = <<>> /\ exc = ""
        /\ X_train = <<>> /\ X_test = <<>> /\ out = <<>>
        /\ fitted = {} /\ scored = {} /\ eval_return = "unset"
        /\ file = file0
        /\ pc = "exit" => console = <<UsageLine>>

C5_Witness ==
    argc # 3 /\ pc = "exit" /\ console = <<UsageLine>> /\ file = file0

\* C6: the model file is written only after load_data, the split, fit and
\* evaluate_model have completed, in that order; when one of them fails the
\* run ends with the exception and the file is as it was.
C6_SaveLast ==
    /\ file # file0 =>
          /\ Len(completed) >= 5
          /\ SubSeq(completed, 1, 5) =
                <<"load_data", "train_test_split", "build_model", "fit", "evaluate_model">>
          /\ pc \in {"raised", "exit"}
          /\ pc = "raised" => exc = "save_model"
    /\ (pc = "raised" /\ exc # "save_model") => file = file0
    /\ pc = "save_model" => file = file0

C6_Witness ==
    /\ pc = "exit" /\ file = "model" /\ file0 = "old"
    /\ completed[Len(completed)] = "save_model"

AllUnitsDone == \A c \in DOMAIN out : \A f \in DOMAIN out[c] : out[c][f] # Pending

\* C7: the split is made once, into disjoint subsets; every fit of the
\* search and the final refit read training rows only; test rows are read
\* only by evaluate_model, after the fitting has finished.
C7_NoLeakage ==
    LET train == Range(X_train)
        test  == Range(X_test)
    IN  /\ train \cap test = {}
        /\ X_train # <<>> =>
              /\ train \cup test = 1..nrows
              /\ Cardinality(train) = Len(X_train)
              /\ Cardinality(test) = Len(X_test)
        /\ Cardinality({i \in DOMAIN completed : completed[i] = "train_test_split"}) <= 1
        /\ \A f \in fitted : f.rows \subseteq train /\ f.rows \cap test = {}
        /\ \A s \in scored :
              s.rows \cap test # {} =>
                  /\ s.kind = "evaluate"
                  /\ AllUnitsDone
                  /\ \E f \in fitted : f.kind = "refit"
                  /\ \E i \in DOMAIN completed : completed[i] = "fit"

C7_Witness ==
    /\ pc = "exit"
    /\ \E s \in scored : s.kind = "evaluate" /\ s.rows = Range(X_test) /\ s.rows # {}
    /\ \E f \in fitted : f.kind = "refit"
    /\ \E f \in fitted : f.kind = "cv"

RECURSIVE SetSum(_, _)
SetSum(row, S) ==
    IF S = {} THEN 0
    ELSE LET f == CHOOSE x \in S : TRUE
         IN  row[f] + SetSum(row, S \ {f})

FitDone == \E i \in DOMAIN completed : completed[i] = "fit"

EvaluateDone == \E i \in DOMAIN completed : completed[i] = "evaluate_model"

EvaluateMessages ==
    {"------", "Category:", "Average overall accuracy", "F1 score (custom definition)"}

====
